---- MODULE Spec2Model ----
(***************************************************************************)
(* Model of src/app/page.tsx: the todo list held in the Home component's   *)
(* React state (todos, text, filter, editingId, editingText), its event    *)
(* handlers, and the localStorage slot "todos:v1" written by the save      *)
(* effect after every commit of a new todos array.                         *)
(*                                                                         *)
(* Strings the user types are sequences of one-character strings, so that  *)
(* String.prototype.trim is computed, not assumed.  Task ids (uuid v4) are *)
(* opaque strings drawn from a finite pool.                                *)
(***************************************************************************)
EXTENDS Integers, Sequences, FiniteSets, TLC

(* ------------------------------- bounds -------------------------------- *)

\* Number of distinct task ids the session can draw (tasks ever created or loaded).
MaxId == 3

\* Writes the store may refuse in one run.
MaxWriteFail == 1


(* ------------------------------ data model ----------------------------- *)

IdPool == <<"u1", "u2", "u3", "u4", "u5", "u6">>

Ids == {IdPool[i] : i \in 1..MaxId}

\* A slip: the id is not fresh, every task gets the same one.
uuidv4Constant(drawn) == IdPool[1]

\* uuidv4(): an id no task of the session has had; ids are opaque, so the
\* pool is drawn in order.
uuidv4(drawn) == IdPool[drawn + 1]

\* editingId: string | null
Null == "null"

WhiteSpace == {" "}

\* What the user types into an input element: nothing, white space only, a
\* plain word, and a word padded on both sides.
Inputs == {<<>>, <<" ">>, <<"a">>, <<" ", "b", " ">>}

\* Two task texts with a space inside.
BuyMilk == <<"B", "u", "y", " ", "m", "i", "l", "k">>
WalkDog == <<"W", "a", "l", "k", " ", "d", "o", "g">>
ScenarioInputs == {BuyMilk, WalkDog}

\* Date.now() when a task is created.  No handler reads createdAt, so the
\* clock is a logical one: it has ticked once for every id taken so far, and
\* every task of a session carries its own stamp.
DateNow(drawn) == drawn

Filters == {"all", "active", "completed"}

\* type Todo = { id, text, completed, createdAt }
Todo(id, txt, completed, createdAt) ==
    [id |-> id, text |-> txt, completed |-> completed, createdAt |-> createdAt]

(* ------------------------- String.prototype.trim ----------------------- *)

RECURSIVE TrimStart(_)
TrimStart(s) ==
    IF s = <<>> THEN s
    ELSE IF Head(s) \in WhiteSpace THEN TrimStart(Tail(s)) ELSE s

RECURSIVE TrimEnd(_)
TrimEnd(s) ==
    IF s = <<>> THEN s
    ELSE IF s[Len(s)] \in WhiteSpace THEN TrimEnd(SubSeq(s, 1, Len(s) - 1)) ELSE s

\* A slip: only leading white space is removed.
TrimStartOnly(s) == TrimStart(s)

\* A slip: the input is used as typed.
TrimOmitted(s) == s

Trim(s) == TrimEnd(TrimStart(s))

(* -------------------------------- state -------------------------------- *)

VARIABLES
    todos,        \* useState<Todo[]>: the collection, most recent first
    text,         \* useState(""): the new-todo input
    filter,       \* useState("all")
    editingId,    \* useState<string | null>(null)
    editingText,  \* useState(""): working copy of the edited text
    stored,       \* localStorage slot STORAGE_KEY: [present, raw]
    mounted,      \* the component has mounted (its mount effects have run)
    idsDrawn,     \* how many ids of the pool are taken: loaded or drawn by uuidv4
    failBudget,   \* localStorage writes the browser will still reject
    op            \* history: the handler that ran last and what it was given

vars == <<todos, text, filter, editingId, editingText, stored, mounted,
          idsDrawn, failBudget, op>>

\* The collection holds a task with this id.
Has(s, id) == \E i \in 1..Len(s) : s[i].id = id

\* History of the last handler: its name, its id argument, the input text it
\* read (text or editingText), and whether it found what it acts on (a task
\* with that id; for clearCompleted, a completed task).
Op(name, id, arg, hit) == [name |-> name, id |-> id, arg |-> arg, hit |-> hit]

(* ----------------------------- persistence ----------------------------- *)

Absent == [present |-> FALSE, raw |-> <<>>]

Digits == <<"0", "1", "2", "3", "4", "5", "6", "7", "8", "9">>

\* A JSON string literal: quote, characters, quote.
JsonString(s) == <<"\"">> \o s \o <<"\"">>

JsonKey(k) == <<"\"", k, "\"", ":">>

RECURSIVE JsonNumber(_)
JsonNumber(n) ==
    IF n < Len(Digits) THEN <<Digits[n + 1]>>
    ELSE JsonNumber(n \div Len(Digits)) \o <<Digits[(n % Len(Digits)) + 1]>>

\* A slip: booleans are written as false.
JsonBoolFalse(b) == <<"false">>

JsonBool(b) == IF b THEN <<"true">> ELSE <<"false">>

\* JSON.stringify of one Todo: keys in insertion order id, text, completed, createdAt.
StringifyTodo(t) ==
    <<"{">> \o JsonKey("id") \o JsonString(<<t.id>>) \o <<",">>
            \o JsonKey("text") \o JsonString(t.text) \o <<",">>
            \o JsonKey("completed") \o JsonBool(t.completed) \o <<",">>
            \o JsonKey("createdAt") \o JsonNumber(t.createdAt) \o <<"}">>

RECURSIVE StringifyItems(_)
StringifyItems(ts) ==
    IF ts = <<>> THEN <<>>
    ELSE IF Len(ts) = 1 THEN StringifyTodo(ts[1])
    ELSE StringifyTodo(ts[1]) \o <<",">> \o StringifyItems(Tail(ts))

\* JSON.stringify(todos)
Stringify(ts) == <<"[">> \o StringifyItems(ts) \o <<"]">>

(* JSON.parse: a recursive descent over the stored characters.  A parsed    *)
(* value is tagged with its JavaScript kind; a result is [ok, val, pos].    *)

JsNull == [k |-> "null"]
JsBool(b) == [k |-> "bool", v |-> b]
JsNum(n) == [k |-> "num", v |-> n]
JsStr(str) == [k |-> "str", v |-> str]
JsArr(items) == [k |-> "arr", v |-> items]
JsObj(members) == [k |-> "obj", v |-> members]

ParseFail == [ok |-> FALSE, val |-> JsNull, pos |-> 0]
ParseOk(val, pos) == [ok |-> TRUE, val |-> val, pos |-> pos]

DigitValue(c) == (CHOOSE d \in 1..Len(Digits) : Digits[d] = c) - 1
IsDigit(c) == \E d \in 1..Len(Digits) : Digits[d] = c

RECURSIVE SkipWs(_, _)
SkipWs(s, i) ==
    IF i <= Len(s) /\ s[i] \in WhiteSpace THEN SkipWs(s, i + 1) ELSE i

\* Digits from position i on, acc being the value read so far.
RECURSIVE ParseDigits(_, _, _)
ParseDigits(s, i, acc) ==
    IF i <= Len(s) /\ IsDigit(s[i])
    THEN ParseDigits(s, i + 1, acc * Len(Digits) + DigitValue(s[i]))
    ELSE ParseOk(JsNum(acc), i)

\* Characters of a string literal from position i on, up to the closing quote.
RECURSIVE ParseChars(_, _, _)
ParseChars(s, i, acc) ==
    IF i > Len(s) THEN ParseFail
    ELSE IF s[i] = "\"" THEN ParseOk(JsStr(acc), i + 1)
    ELSE ParseChars(s, i + 1, Append(acc, s[i]))

RECURSIVE ParseValue(_, _)
RECURSIVE ParseElements(_, _, _)
RECURSIVE ParseMembers(_, _, _)

\* Elements of an array after "[" or ",": value, then "," or "]".
ParseElements(s, i, acc) ==
    LET e == ParseValue(s, i)
        j == SkipWs(s, e.pos)
    IN  IF ~e.ok \/ j > Len(s) THEN ParseFail
        ELSE IF s[j] = "]" THEN ParseOk(JsArr(Append(acc, e.val)), j + 1)
        ELSE IF s[j] = "," THEN ParseElements(s, j + 1, Append(acc, e.val))
        ELSE ParseFail

\* Members of an object after "{" or ",": string, ":", value, then "," or "}".
ParseMembers(s, i, acc) ==
    LET i1 == SkipWs(s, i)
        key == IF i1 <= Len(s) /\ s[i1] = "\"" THEN ParseChars(s, i1 + 1, <<>>) ELSE ParseFail
        i2 == SkipWs(s, key.pos)
        val == IF key.ok /\ i2 <= Len(s) /\ s[i2] = ":" THEN ParseValue(s, i2 + 1) ELSE ParseFail
        j == SkipWs(s, val.pos)
        more == Append(acc, <<key.val.v, val.val>>)
    IN  IF ~val.ok \/ j > Len(s) THEN ParseFail
        ELSE IF s[j] = "}" THEN ParseOk(JsObj(more), j + 1)
        ELSE IF s[j] = "," THEN ParseMembers(s, j + 1, more)
        ELSE ParseFail

ParseValue(s, i0) ==
    LET i == SkipWs(s, i0)
    IN  IF i > Len(s) THEN ParseFail
        ELSE IF s[i] = "null" THEN ParseOk(JsNull, i + 1)
        ELSE IF s[i] = "true" THEN ParseOk(JsBool(TRUE), i + 1)
        ELSE IF s[i] = "false" THEN ParseOk(JsBool(FALSE), i + 1)
        ELSE IF IsDigit(s[i]) THEN ParseDigits(s, i, 0)
        ELSE IF s[i] = "\"" THEN ParseChars(s, i + 1, <<>>)
        ELSE IF s[i] = "[" THEN
            LET j == SkipWs(s, i + 1)
            IN  IF j <= Len(s) /\ s[j] = "]" THEN ParseOk(JsArr(<<>>), j + 1)
                ELSE ParseElements(s, i + 1, <<>>)
        ELSE IF s[i] = "{" THEN
            LET j == SkipWs(s, i + 1)
            IN  IF j <= Len(s) /\ s[j] = "}" THEN ParseOk(JsObj(<<>>), j + 1)
                ELSE ParseMembers(s, i + 1, <<>>)
        ELSE ParseFail

\* JSON.parse(raw): ok is FALSE where JSON.parse throws a SyntaxError.
Parse(raw) ==
    LET r == ParseValue(raw, 1)
    IN  IF r.ok /\ SkipWs(raw, r.pos) = Len(raw) + 1 THEN r ELSE ParseFail

\* loadTodos: [] when the slot is absent or empty or JSON.parse throws;
\* otherwise whatever JSON.parse returned, cast to Todo[] unchecked.
loadTodos(slot) ==
    IF ~slot.present \/ slot.raw = <<>> THEN JsArr(<<>>)
    ELSE LET r == Parse(slot.raw)
         IN  IF r.ok THEN r.val ELSE JsArr(<<>>)

\* o[key] of a parsed object: the last member with that key.
HasKey(o, key) == \E m \in 1..Len(o.v) : o.v[m][1] = key
Field(o, key) ==
    o.v[CHOOSE m \in 1..Len(o.v) :
            /\ o.v[m][1] = key
            /\ \A n \in (m + 1)..Len(o.v) : o.v[n][1] # key][2]

\* The parsed value has the shape of a Todo.
IsTodoObject(o) ==
    /\ o.k = "obj"
    /\ \A key \in {<<"id">>, <<"text">>, <<"completed">>, <<"createdAt">>} : HasKey(o, key)
    /\ Field(o, <<"id">>).k = "str" /\ Len(Field(o, <<"id">>).v) = 1
    /\ Field(o, <<"text">>).k = "str"
    /\ Field(o, <<"completed">>).k = "bool"
    /\ Field(o, <<"createdAt">>).k = "num"

\* The parsed value has the shape of a Todo[].
IsTodoArray(val) ==
    IF val.k # "arr" THEN FALSE
    ELSE \A i \in 1..Len(val.v) : IsTodoObject(val.v[i])

\* A parsed Todo[] as the component holds it.
AsTodos(val) ==
    [i \in 1..Len(val.v) |->
        Todo(Field(val.v[i], <<"id">>).v[1], Field(val.v[i], <<"text">>).v,
             Field(val.v[i], <<"completed">>).v, Field(val.v[i], <<"createdAt">>).v)]

\* What useState holds after the cast: the Todo[] when the parsed value is
\* one, the parsed value itself when it is not.
Loaded(slot) ==
    LET val == loadTodos(slot)
    IN  IF IsTodoArray(val) THEN AsTodos(val) ELSE val

\* Rendering Home with this value as todos throws a TypeError: todos.filter
\* is not a function unless todos is an array, and t.completed cannot be
\* read of a null element.
RenderThrows(val) ==
    IF val.k # "arr" THEN TRUE
    ELSE \E i \in 1..Len(val.v) : val.v[i].k = "null"

\* A slip: the catch removes the item.
saveTodosClearsOnFailure(slot, ts, ok) ==
    IF ok THEN [present |-> TRUE, raw |-> Stringify(ts)] ELSE Absent

\* saveTodos: setItem either stores the serialized array or throws, and the
\* catch leaves the slot as it was.
saveTodos(slot, ts, ok) ==
    IF ok THEN [present |-> TRUE, raw |-> Stringify(ts)] ELSE slot

(* ------------------------- setTodos updater bodies --------------------- *)

\* A slip: the new task goes to the end of the array.
addUpdateAppends(s, newTodo) == s \o <<newTodo>>

\* (s) => [newTodo, ...s]
addUpdate(s, newTodo) == <<newTodo>> \o s

\* A slip: the matching task is marked completed instead of flipped.
toggleUpdateSetsCompleted(s, id) ==
    [i \in 1..Len(s) |->
        IF s[i].id = id THEN [s[i] EXCEPT !.completed = TRUE] ELSE s[i]]

\* A slip: a toggled task is moved to the end of the list.
toggleUpdateMovesLast(s, id) ==
    SelectSeq(s, LAMBDA t : t.id # id)
        \o SelectSeq([i \in 1..Len(s) |-> [s[i] EXCEPT !.completed = ~s[i].completed]],
                      LAMBDA t : t.id = id)

\* (s) => s.map((t) => (t.id === id ? { ...t, completed: !t.completed } : t))
toggleUpdate(s, id) ==
    [i \in 1..Len(s) |->
        IF s[i].id = id THEN [s[i] EXCEPT !.completed = ~s[i].completed] ELSE s[i]]

\* A slip: the comparison is inverted.
removeKeepsInverted(t, id) == t.id = id

removeKeeps(t, id) == t.id # id

\* (s) => s.filter((t) => t.id !== id)
removeUpdate(s, id) == SelectSeq(s, LAMBDA t : removeKeeps(t, id))

\* A slip: the matching task is rebuilt without the spread, as a new open task.
renameUpdateRebuilds(s, id, trimmed) ==
    [i \in 1..Len(s) |->
        IF s[i].id = id THEN Todo(s[i].id, trimmed, FALSE, s[i].createdAt) ELSE s[i]]

\* A slip: the edit is done as remove and add, the renamed task goes first.
renameUpdateMovesFirst(s, id, trimmed) ==
    SelectSeq([i \in 1..Len(s) |-> [s[i] EXCEPT !.text = trimmed]], LAMBDA t : t.id = id)
        \o SelectSeq(s, LAMBDA t : t.id # id)

\* (s) => s.map((t) => (t.id === id ? { ...t, text: trimmed } : t))
renameUpdate(s, id, trimmed) ==
    [i \in 1..Len(s) |->
        IF s[i].id = id THEN [s[i] EXCEPT !.text = trimmed] ELSE s[i]]

\* A slip: the negation is missing.
clearKeepsInverted(t) == t.completed

clearKeeps(t) == ~t.completed

\* A slip: every task is cleared.
clearUpdateEmpties(s) == <<>>

\* (s) => s.filter((t) => !t.completed)
clearUpdate(s) == SelectSeq(s, clearKeeps)

\* A slip: the active view does not test completed.
visibleKeepsActiveAll(t, f) ==
    IF f = "all" THEN TRUE
    ELSE IF f = "active" THEN TRUE
    ELSE t.completed

visibleKeeps(t, f) ==
    IF f = "all" THEN TRUE
    ELSE IF f = "active" THEN ~t.completed
    ELSE t.completed

\* todos.filter(...) under filter mode f
visibleOf(s, f) == SelectSeq(s, LAMBDA t : visibleKeeps(t, f))

visible == visibleOf(todos, filter)

\* The edit input is rendered in the row of the visible todo being edited.
editInputRendered == \E i \in 1..Len(visible) : visible[i].id = editingId

(* ------------------------------- actions ------------------------------- *)

\* A slip: the effect has no dependency on todos and nothing is written.
CommitNoSave(next) ==
    /\ todos' = next
    /\ UNCHANGED <<stored, failBudget>>

\* A new todos array is committed: React re-renders and the effect on [todos]
\* runs saveTodos(todos) before the next event is handled.
Commit(next) ==
    /\ todos' = next
    /\ \E ok \in IF failBudget > 0 THEN BOOLEAN ELSE {TRUE} :
          /\ stored' = saveTodos(stored, next, ok)
          /\ failBudget' = IF ok THEN failBudget ELSE failBudget - 1

\* Collections an earlier session may have left in the slot, newest first;
\* their ids are the first of the pool.
SavedCollections ==
    { <<>>,
      <<Todo("u2", <<"a">>, FALSE, 1), Todo("u1", <<"b">>, TRUE, 0)>> }

InitialStored ==
    {Absent} \cup {[present |-> TRUE, raw |-> Stringify(c)] : c \in SavedCollections}

\* useState initializers: todos is loadTodos(), everything else its default.
Init ==
    /\ stored \in InitialStored
    /\ todos = AsTodos(loadTodos(stored))
    /\ text = <<>>
    /\ filter = "all"
    /\ editingId = Null
    /\ editingText = <<>>
    /\ mounted = FALSE
    /\ idsDrawn = Len(todos)
    /\ failBudget = 0
    /\ op = Op("init", Null, <<>>, FALSE)

\* A slip: the effect skips its first run.
MountSkipsSave ==
    /\ ~mounted
    /\ op.name # "renderError"
    /\ ~RenderThrows(loadTodos(stored))
    /\ mounted' = TRUE
    /\ op' = Op("mount", Null, <<>>, FALSE)
    /\ UNCHANGED <<todos, text, filter, editingId, editingText, stored, idsDrawn,
                   failBudget>>

\* First run of useEffect(() => saveTodos(todos), [todos]) after mount.
Mount ==
    /\ ~mounted
    /\ op.name # "renderError"
    /\ ~RenderThrows(loadTodos(stored))
    /\ mounted' = TRUE
    /\ Commit(todos)
    /\ op' = Op("mount", Null, <<>>, FALSE)
    /\ UNCHANGED <<text, filter, editingId, editingText, idsDrawn>>

\* The first render throws: React discards the tree, no effect runs and no
\* handler is ever bound.
RenderError ==
    /\ ~mounted
    /\ op.name # "renderError"
    /\ RenderThrows(loadTodos(stored))
    /\ op' = Op("renderError", Null, <<>>, FALSE)
    /\ UNCHANGED <<todos, text, filter, editingId, editingText, stored, mounted,
                   idsDrawn, failBudget>>

\* onChange of the new-todo input
setText(v) ==
    /\ mounted
    /\ text' = v
    /\ op' = Op("setText", Null, v, FALSE)
    /\ UNCHANGED <<todos, filter, editingId, editingText, stored, mounted,
                   idsDrawn, failBudget>>

\* A slip: choosing a view keeps only the tasks that view shows.
setFilterDropsHidden(f) ==
    /\ mounted
    /\ filter' = f
    /\ Commit(visibleOf(todos, f))
    /\ op' = Op("setFilter", Null, <<>>, FALSE)
    /\ UNCHANGED <<text, editingId, editingText, mounted, idsDrawn>>

setFilter(f) ==
    /\ mounted
    /\ filter' = f
    /\ op' = Op("setFilter", Null, <<>>, FALSE)
    /\ UNCHANGED <<todos, text, editingId, editingText, stored, mounted,
                   idsDrawn, failBudget>>

\* onChange of the edit input
setEditingText(v) ==
    /\ mounted
    /\ editInputRendered
    /\ editingText' = v
    /\ op' = Op("setEditingText", Null, v, FALSE)
    /\ UNCHANGED <<todos, text, filter, editingId, stored, mounted,
                   idsDrawn, failBudget>>

addTodo ==
    /\ mounted
    /\ op' = Op("addTodo", Null, text, FALSE)
    /\ LET trimmed == Trim(text)
       IN  IF trimmed = <<>>
           THEN UNCHANGED <<todos, text, stored, idsDrawn, failBudget>>
           ELSE /\ idsDrawn < MaxId
                /\ Commit(addUpdate(todos, Todo(uuidv4(idsDrawn), trimmed, FALSE,
                                                DateNow(idsDrawn))))
                /\ text' = <<>>
                /\ idsDrawn' = idsDrawn + 1
    /\ UNCHANGED <<filter, editingId, editingText, mounted>>

toggleTodo(id) ==
    /\ mounted
    /\ Commit(toggleUpdate(todos, id))
    /\ op' = Op("toggleTodo", id, <<>>, Has(todos, id))
    /\ UNCHANGED <<text, filter, editingId, editingText, mounted, idsDrawn>>

removeTodo(id) ==
    /\ mounted
    /\ Commit(removeUpdate(todos, id))
    /\ op' = Op("removeTodo", id, <<>>, Has(todos, id))
    /\ UNCHANGED <<text, filter, editingId, editingText, mounted, idsDrawn>>

startEdit(todo) ==
    /\ mounted
    /\ editingId' = todo.id
    /\ editingText' = todo.text
    /\ op' = Op("startEdit", todo.id, <<>>, TRUE)
    /\ UNCHANGED <<todos, text, filter, stored, mounted, idsDrawn, failBudget>>

cancelEdit ==
    /\ mounted
    /\ editingId' = Null
    /\ editingText' = <<>>
    /\ op' = Op("cancelEdit", Null, <<>>, FALSE)
    /\ UNCHANGED <<todos, text, filter, stored, mounted, idsDrawn, failBudget>>

\* A slip: the empty-text branch is missing, the edit always renames.
saveEditAlwaysRenames(id) ==
    /\ mounted
    /\ Commit(renameUpdate(todos, id, Trim(editingText)))
    /\ editingId' = Null
    /\ editingText' = <<>>
    /\ op' = Op("saveEdit", id, editingText, Has(todos, id))
    /\ UNCHANGED <<text, filter, mounted, idsDrawn>>

saveEdit(id) ==
    /\ mounted
    /\ LET trimmed == Trim(editingText)
       IN  IF trimmed = <<>>
           THEN Commit(removeUpdate(todos, id))
           ELSE Commit(renameUpdate(todos, id, trimmed))
    /\ editingId' = Null
    /\ editingText' = <<>>
    /\ op' = Op("saveEdit", id, editingText, Has(todos, id))
    /\ UNCHANGED <<text, filter, mounted, idsDrawn>>

clearCompleted ==
    /\ mounted
    /\ Commit(clearUpdate(todos))
    /\ op' = Op("clearCompleted", Null, <<>>, \E i \in 1..Len(todos) : todos[i].completed)
    /\ UNCHANGED <<text, filter, editingId, editingText, mounted, idsDrawn>>

\* The task-store handlers and the inputs that feed them.  toggleTodo,
\* removeTodo and saveEdit take any id of the pool, present or not.
NextStore ==
    \/ Mount
    \/ \E v \in Inputs : setText(v)
    \/ \E v \in Inputs : setEditingText(v)
    \/ addTodo
    \/ \E id \in Ids : toggleTodo(id)
    \/ \E id \in Ids : removeTodo(id)
    \/ \E i \in 1..Len(visible) : startEdit(visible[i])
    \/ cancelEdit
    \/ \E id \in Ids : saveEdit(id)
    \/ clearCompleted

Next ==
    \/ NextStore
    \/ \E f \in Filters : setFilter(f)

\* The whole component.
Spec == Init /\ [][Next]_vars

\* The component with the filter buttons left alone: the view stays "all",
\* every task is visible, and startEdit and the edit input are available for
\* every task.  No handler but the view reads filter, so the collections and
\* edit states Spec reaches are those SpecStore reaches.
SpecStore == Init /\ [][NextStore]_vars

\* setItem may throw (quota exceeded, storage disabled): the store refuses up
\* to MaxWriteFail writes, at moments of its own choosing.
InitFaulty ==
    /\ stored \in InitialStored
    /\ todos = AsTodos(loadTodos(stored))
    /\ text = <<>>
    /\ filter = "all"
    /\ editingId = Null
    /\ editingText = <<>>
    /\ mounted = FALSE
    /\ idsDrawn = Len(todos)
    /\ failBudget = MaxWriteFail
    /\ op = Op("init", Null, <<>>, FALSE)

\* The task-store handlers over a store that may refuse writes.
SpecFaulty == InitFaulty /\ [][NextStore]_vars

\* First visit: the slot is absent and the collection empty.
InitScenario ==
    /\ stored = Absent
    /\ todos = AsTodos(loadTodos(stored))
    /\ text = <<>>
    /\ filter = "all"
    /\ editingId = Null
    /\ editingText = <<>>
    /\ mounted = FALSE
    /\ idsDrawn = 0
    /\ failBudget = 0
    /\ op = Op("init", Null, <<>>, FALSE)

\* Adding, ticking, choosing a view and clearing, with the two task texts.
NextScenario ==
    \/ Mount
    \/ \E v \in ScenarioInputs : setText(v)
    \/ addTodo
    \/ \E i \in 1..Len(visible) : toggleTodo(visible[i].id)
    \/ \E f \in Filters : setFilter(f)
    \/ clearCompleted

SpecScenario == InitScenario /\ [][NextScenario]_vars

\* The page is reloaded: every useState starts over, todos from what the slot
\* holds now.  uuidv4 still returns no id it returned before.
Reload ==
    /\ mounted
    /\ todos' = Loaded(stored)
    /\ text' = <<>>
    /\ filter' = "all"
    /\ editingId' = Null
    /\ editingText' = <<>>
    /\ mounted' = FALSE
    /\ op' = Op("reload", Null, <<>>, FALSE)
    /\ UNCHANGED <<stored, idsDrawn, failBudget>>

NextSession ==
    \/ NextScenario
    \/ Reload

\* The same handlers and texts over several page loads.
SpecSession == InitScenario /\ [][NextSession]_vars

\* The page right after startEdit of the completed task "b" of the saved
\* collection: the edit is open, its working copy is the task's text.
InitEditing ==
    /\ todos = <<Todo("u2", <<"a">>, FALSE, 1), Todo("u1", <<"b">>, TRUE, 0)>>
    /\ stored = saveTodos(Absent, todos, TRUE)
    /\ text = <<>>
    /\ filter = "all"
    /\ editingId = "u1"
    /\ editingText = <<"b">>
    /\ mounted = TRUE
    /\ idsDrawn = Len(todos)
    /\ failBudget = 0
    /\ op = Op("startEdit", "u1", <<>>, TRUE)

\* What can happen while that edit is open and after it: every handler of
\* the task store but startEdit.
NextEditing ==
    \/ \E v \in Inputs : setText(v)
    \/ \E v \in Inputs : setEditingText(v)
    \/ addTodo
    \/ \E id \in Ids : toggleTodo(id)
    \/ \E id \in Ids : removeTodo(id)
    \/ cancelEdit
    \/ \E id \in Ids : saveEdit(id)
    \/ clearCompleted

SpecEditing == InitEditing /\ [][NextEditing]_vars

\* Values the slot may hold when the page opens: nothing, the empty string,
\* text that is not JSON, JSON that is not an array, an array of null, and
\* what an earlier session saved.  (Arrays of objects of another shape render
\* and are not drawn here.)
ForeignStored ==
    { <<>>,
      <<"[", "{">>, <<"a">>, <<"[", "]", "]">>,
      <<"null">>, <<"1">>, <<"true">>, <<"\"", "a", "\"">>, <<"{", "}">>,
      <<"[", "null", "]">> }

AnyStored == InitialStored \cup {[present |-> TRUE, raw |-> raw] : raw \in ForeignStored}

\* useState initializers over any content of the slot.
InitLoad ==
    /\ stored \in AnyStored
    /\ todos = Loaded(stored)
    /\ text = <<>>
    /\ filter = "all"
    /\ editingId = Null
    /\ editingText = <<>>
    /\ mounted = FALSE
    /\ idsDrawn = IF IsTodoArray(loadTodos(stored)) THEN Len(todos) ELSE 0
    /\ failBudget = 0
    /\ op = Op("init", Null, <<>>, FALSE)

NextLoad ==
    \/ RenderError
    \/ Mount
    \/ mounted /\ NextStore

\* Startup over any content of the slot, then the task-store handlers.
SpecLoad == InitLoad /\ [][NextLoad]_vars

(* ------------------------------- claims -------------------------------- *)

\* The string is empty or consists only of white space.
IsBlank(str) == \A i \in 1..Len(str) : str[i] \in WhiteSpace

\* The string has no white space at either end.
IsTrimmed(str) == str = <<>> \/ (str[1] \notin WhiteSpace /\ str[Len(str)] \notin WhiteSpace)

\* C1: an addTodo step whose input is not blank makes the collection one
\* longer; the new task is first, its text is the trimmed input and it is
\* not completed; the tasks present before follow it, unchanged and in order.
C1_AddPrepends ==
    [][(op'.name = "addTodo" /\ ~IsBlank(text)) =>
          /\ Len(todos') = Len(todos) + 1
          /\ todos'[1].text = Trim(text)
          /\ todos'[1].completed = FALSE
          /\ \A i \in 1..Len(todos) : todos'[i + 1] = todos[i]]_vars

\* A padded input was added in front of two earlier tasks.
C1_Witness ==
    /\ op.name = "addTodo" /\ op.arg = <<" ", "b", " ">>
    /\ Len(todos) = 3
    /\ todos[1] = Todo("u3", <<"b">>, FALSE, 2)
    /\ text = <<>>

\* C2: an addTodo step whose input is empty or all white space changes
\* nothing: the collection, the ids taken and the stored value stay.
C2_AddBlankNoOp ==
    [][(op'.name = "addTodo" /\ IsBlank(text)) =>
          /\ todos' = todos
          /\ idsDrawn' = idsDrawn
          /\ stored' = stored]_vars

\* addTodo ran on a white-space input over a non-empty collection.
C2_Witness ==
    /\ op.name = "addTodo" /\ op.arg = <<" ">>
    /\ text = <<" ">>
    /\ Len(todos) = 2

\* C3: the ids of the tasks in the collection are pairwise distinct.
C3_IdsUnique ==
    \A i, j \in 1..Len(todos) : i # j => todos[i].id # todos[j].id

\* Three tasks, the last of them just added.
C3_Witness ==
    /\ op.name = "addTodo" /\ ~IsBlank(op.arg)
    /\ Len(todos) = 3
    /\ {todos[i].id : i \in 1..3} = Ids

\* C4: no task has empty text and every text is its own trimmed form; a
\* saveEdit step whose input is blank leaves no task with the edited id.
C4_TextNonEmptyTrimmed ==
    /\ [](\A i \in 1..Len(todos) : todos[i].text # <<>> /\ IsTrimmed(todos[i].text))
    /\ [][(op'.name = "saveEdit" /\ IsBlank(editingText)) => ~Has(todos', op'.id)]_vars

\* A task being edited was saved with a white-space text and is gone.
C4_Witness ==
    /\ op.name = "saveEdit" /\ op.arg = <<" ">> /\ op.hit
    /\ ~Has(todos, op.id)
    /\ Len(todos) = 2

\* C5: a toggleTodo step on a present id flips completed of that task and
\* keeps its other fields, every other task and the order; toggling the
\* same id in the result gives back the collection before the step.
C5_ToggleFlips ==
    [][(op'.name = "toggleTodo" /\ Has(todos, op'.id)) =>
          /\ Len(todos') = Len(todos)
          /\ \A i \in 1..Len(todos) :
                IF todos[i].id = op'.id
                THEN /\ todos'[i].completed = ~todos[i].completed
                     /\ todos'[i].id = todos[i].id
                     /\ todos'[i].text = todos[i].text
                     /\ todos'[i].createdAt = todos[i].createdAt
                ELSE todos'[i] = todos[i]
          /\ toggleUpdate(todos', op'.id) = todos]_vars

\* The middle one of three tasks was toggled and is open again.
C5_Witness ==
    /\ op.name = "toggleTodo" /\ op.hit
    /\ Len(todos) = 3
    /\ todos[2].id = op.id /\ ~todos[2].completed
    /\ todos[1].completed

\* C6: toggleTodo, removeTodo and saveEdit steps on an id no task has leave
\* the collection as it was.
C6_UnknownIdNoOp ==
    [][(op'.name \in {"toggleTodo", "removeTodo", "saveEdit"} /\ ~Has(todos, op'.id)) =>
          todos' = todos]_vars

\* saveEdit ran with a text to store on an id that no task of a non-empty
\* collection has.
C6_Witness ==
    /\ op.name = "saveEdit" /\ ~op.hit /\ ~IsBlank(op.arg)
    /\ Len(todos) = 2

\* The collection without the tasks of this id, order kept.
RECURSIVE Without(_, _)
Without(s, id) ==
    IF s = <<>> THEN <<>>
    ELSE IF Head(s).id = id THEN Without(Tail(s), id)
    ELSE <<Head(s)>> \o Without(Tail(s), id)

\* C7: a saveEdit step whose input is blank yields the collection without
\* the task of that id, which is what a removeTodo step yields, and leaves
\* no task being edited and an empty working copy.
C7_BlankEditRemoves ==
    [][/\ (op'.name = "removeTodo" => todos' = Without(todos, op'.id))
       /\ (op'.name = "saveEdit" /\ IsBlank(editingText)) =>
              /\ todos' = Without(todos, op'.id)
              /\ editingId' = Null
              /\ editingText' = <<>>]_vars

\* A present task was saved with the empty string: it is gone, edit state cleared.
C7_Witness ==
    /\ op.name = "saveEdit" /\ op.arg = <<>> /\ op.hit
    /\ ~Has(todos, op.id)
    /\ editingId = Null /\ editingText = <<>>
    /\ Len(todos) = 2

\* C8: a saveEdit step whose input is not blank sets the text of the task of
\* that id to the trimmed input, keeps its id, completed and createdAt,
\* every other task and the order, and clears the edit state.
C8_EditRenames ==
    [][(op'.name = "saveEdit" /\ ~IsBlank(editingText)) =>
          /\ Len(todos') = Len(todos)
          /\ \A i \in 1..Len(todos) :
                IF todos[i].id = op'.id
                THEN /\ todos'[i].text = Trim(editingText)
                     /\ IsTrimmed(todos'[i].text)
                     /\ todos'[i].id = todos[i].id
                     /\ todos'[i].completed = todos[i].completed
                     /\ todos'[i].createdAt = todos[i].createdAt
                ELSE todos'[i] = todos[i]
          /\ editingId' = Null
          /\ editingText' = <<>>]_vars

\* A completed task in the middle of three was renamed from a padded input.
C8_Witness ==
    /\ op.name = "saveEdit" /\ op.hit /\ op.arg = <<" ", "b", " ">>
    /\ Len(todos) = 3
    /\ todos[2] = Todo(op.id, <<"b">>, TRUE, 1)
    /\ editingId = Null /\ editingText = <<>>

\* The tasks that are not completed, order kept.
RECURSIVE OpenTasks(_)
OpenTasks(s) ==
    IF s = <<>> THEN <<>>
    ELSE IF Head(s).completed THEN OpenTasks(Tail(s))
    ELSE <<Head(s)>> \o OpenTasks(Tail(s))

\* C9: a clearCompleted step leaves exactly the tasks that were not
\* completed, unchanged and in order; clearing the result again changes
\* nothing.
C9_ClearCompleted ==
    [][op'.name = "clearCompleted" =>
          /\ todos' = OpenTasks(todos)
          /\ \A i \in 1..Len(todos') : ~todos'[i].completed
          /\ clearUpdate(todos') = todos']_vars

\* Of three tasks one was completed and cleared; two open ones remain.
C9_Witness ==
    /\ op.name = "clearCompleted" /\ op.hit
    /\ idsDrawn = 3
    /\ Len(todos) = 2
    /\ todos[1].id = "u3" /\ todos[2].id = "u1"

\* a is b with some elements left out.
RECURSIVE IsSubsequence(_, _)
IsSubsequence(a, b) ==
    IF a = <<>> THEN TRUE
    ELSE IF b = <<>> THEN FALSE
    ELSE IF Head(a) = Head(b) THEN IsSubsequence(Tail(a), Tail(b))
    ELSE IsSubsequence(a, Tail(b))

Occurs(t, s) == \E i \in 1..Len(s) : s[i] = t

\* C10: the all view is the collection; every task is in exactly one of the
\* active and the completed view; the active view holds open tasks only, the
\* completed view completed ones only; each view keeps the collection's order.
C10_ViewsPartition ==
    LET all == visibleOf(todos, "all")
        active == visibleOf(todos, "active")
        completed == visibleOf(todos, "completed")
    IN  /\ all = todos
        /\ \A i \in 1..Len(todos) : Occurs(todos[i], active) # Occurs(todos[i], completed)
        /\ Len(active) + Len(completed) = Len(todos)
        /\ \A i \in 1..Len(active) : ~active[i].completed
        /\ \A i \in 1..Len(completed) : completed[i].completed
        /\ IsSubsequence(active, todos)
        /\ IsSubsequence(completed, todos)

\* Three tasks, the middle one completed: both views are non-empty and the
\* active one skips over a task.
C10_Witness ==
    /\ Len(todos) = 3
    /\ todos[2].completed /\ ~todos[1].completed /\ ~todos[3].completed
    /\ Len(visibleOf(todos, "active")) = 2
    /\ Len(visibleOf(todos, "completed")) = 1

\* The slot holds the serialization of a Todo[].
StoredIsCollection(slot) ==
    IF ~slot.present \/ slot.raw = <<>> THEN FALSE
    ELSE LET r == Parse(slot.raw)
         IN  IF r.ok THEN IsTodoArray(r.val) ELSE FALSE

\* C11: whenever the slot is absent or does not hold a Todo[] (text that is
\* not JSON, or JSON of another shape such as a non-array), loadTodos yields
\* the empty collection, and the first render never throws: the component
\* starts.
C11_LoadFallsBackToEmpty ==
    /\ (~mounted /\ ~StoredIsCollection(stored)) => loadTodos(stored) = JsArr(<<>>)
    /\ op.name # "renderError"

\* C12: with a store that accepts writes, a page reload (saveTodos of the
\* collection, then loadTodos) gives a collection equal to the one before it,
\* field for field and in the same order; the empty collection included.
C12_RoundTrip ==
    [][op'.name = "reload" =>
          /\ todos' = todos
          /\ stored.raw = Stringify(todos)
          /\ IsTodoArray(loadTodos(stored))]_vars

\* Three tasks, one of them completed, came back from the slot.
C12_Witness ==
    /\ op.name = "reload"
    /\ Len(todos) = 3
    /\ todos[2].completed /\ ~todos[1].completed
    /\ todos[1].text = BuyMilk /\ todos[3].text = WalkDog
    /\ stored.raw = Stringify(todos)

\* The slot holds the whole collection as it is in memory.
Snapshot(ts) == [present |-> TRUE, raw |-> Stringify(ts)]

\* C13: every mutation of the collection (a non-blank add, toggle, remove,
\* commit of an edit, clearCompleted) is followed by a write of the whole new
\* collection, so a write the store accepts leaves the slot equal to the
\* collection in memory; and as long as the store has refused no write the
\* slot of the started page is that snapshot at every moment between events.
C13_SaveAfterMutation ==
    /\ []((mounted /\ failBudget = MaxWriteFail) => stored = Snapshot(todos))
    /\ [][(/\ \/ op'.name \in {"toggleTodo", "removeTodo", "saveEdit", "clearCompleted"}
               \/ (op'.name = "addTodo" /\ ~IsBlank(op'.arg))
            /\ failBudget' = failBudget)
           => stored' = Snapshot(todos')]_vars

\* A mutation was written over a slot that an earlier refused write had left
\* stale.
C13_Witness ==
    /\ op.name = "toggleTodo" /\ op.hit
    /\ failBudget = 0
    /\ Len(todos) = 3
    /\ stored = Snapshot(todos)

\* C14: a write the store refuses stops nothing: the handler's change to the
\* collection stands, the page stays up and the slot keeps what it held.
\* Nothing writes again until the next mutation: every other handler leaves
\* the slot alone.  The next mutation writes the whole collection, so the
\* first later write the store accepts leaves the slot equal to the
\* collection in memory, the changes of the refused write included.
C14_FailedSaveIgnored ==
    [][/\ failBudget' < failBudget =>
            /\ stored' = stored
            /\ mounted'
            /\ op'.name = "mount"          => todos' = todos
            /\ op'.name = "toggleTodo"     => todos' = toggleUpdate(todos, op'.id)
            /\ op'.name = "removeTodo"     => todos' = removeUpdate(todos, op'.id)
            /\ op'.name = "clearCompleted" => todos' = clearUpdate(todos)
            /\ op'.name = "saveEdit"       =>
                   todos' = IF IsBlank(op'.arg) THEN removeUpdate(todos, op'.id)
                            ELSE renameUpdate(todos, op'.id, Trim(op'.arg))
            /\ op'.name = "addTodo"        =>
                   /\ Len(todos') = Len(todos) + 1
                   /\ Tail(todos') = todos
                   /\ todos'[1].text = Trim(op'.arg)
       /\ (\/ op'.name \in {"setText", "setEditingText", "startEdit", "cancelEdit"}
           \/ (op'.name = "addTodo" /\ IsBlank(op'.arg)))
          => (stored' = stored /\ failBudget' = failBudget)
       /\ (/\ mounted
           /\ stored # Snapshot(todos)
           /\ todos' # todos
           /\ failBudget' = failBudget)
          => stored' = Snapshot(todos')]_vars

\* The write of an added task was refused: the task is in memory, the slot
\* still holds the collection without it.
C14_Witness ==
    /\ op.name = "addTodo"
    /\ mounted
    /\ failBudget < MaxWriteFail
    /\ Len(todos) = 2
    /\ stored = Snapshot(Tail(todos))

\* C15: choosing a view, opening an edit, cancelling it and typing in the
\* edit input leave the collection and the slot as they were; what the slot
\* holds is the serialized collection alone, whatever the view and the edit
\* state are.
C15_ViewStateNotPersisted ==
    /\ [](mounted => stored = Snapshot(todos))
    /\ [][op'.name \in {"setFilter", "startEdit", "cancelEdit", "setEditingText"}
            => (todos' = todos /\ stored' = stored)]_vars

\* The view was changed while an edit with a changed working copy was open.
C15_Witness ==
    /\ op.name = "setFilter"
    /\ filter = "completed"
    /\ editingId # Null
    /\ Len(todos) = 3
    /\ \E i \in 1..3 : todos[i].id = editingId /\ todos[i].text # editingText
    /\ \E i \in 1..3 : ~todos[i].completed
    /\ stored = Snapshot(todos)

TextsOf(s) == [i \in 1..Len(s) |-> s[i].text]

FlagsOf(s) == [i \in 1..Len(s) |-> s[i].completed]

\* C16: from the empty collection, adding "Buy milk" gives [Buy milk], then
\* adding "Walk dog" gives [Walk dog, Buy milk], both not completed; toggling
\* the Buy milk task then makes the active view show Walk dog alone, and
\* clearCompleted then leaves exactly the Walk dog task.  Each step starts
\* where the one before it ends.
C16_Scenario ==
    [][/\ (todos = <<>> /\ op'.name = "addTodo" /\ op'.arg = BuyMilk)
          => (TextsOf(todos') = <<BuyMilk>> /\ FlagsOf(todos') = <<FALSE>>)
       /\ (/\ TextsOf(todos) = <<BuyMilk>> /\ FlagsOf(todos) = <<FALSE>>
           /\ op'.name = "addTodo" /\ op'.arg = WalkDog)
          => /\ TextsOf(todos') = <<WalkDog, BuyMilk>>
             /\ FlagsOf(todos') = <<FALSE, FALSE>>
             /\ todos'[2] = todos[1]
       /\ (/\ TextsOf(todos) = <<WalkDog, BuyMilk>> /\ FlagsOf(todos) = <<FALSE, FALSE>>
           /\ op'.name = "toggleTodo" /\ op'.id = todos[2].id)
          => /\ TextsOf(todos') = <<WalkDog, BuyMilk>>
             /\ FlagsOf(todos') = <<FALSE, TRUE>>
             /\ visibleOf(todos', "active") = <<todos[1]>>
       /\ (/\ TextsOf(todos) = <<WalkDog, BuyMilk>> /\ FlagsOf(todos) = <<FALSE, TRUE>>
           /\ op'.name = "setFilter" /\ filter' = "active")
          => /\ todos' = todos
             /\ visibleOf(todos', filter') = <<todos[1]>>
       /\ (/\ TextsOf(todos) = <<WalkDog, BuyMilk>> /\ FlagsOf(todos) = <<FALSE, TRUE>>
           /\ op'.name = "clearCompleted")
          => todos' = <<todos[1]>>]_vars

\* The end of the scenario: two tasks were added, the view is the active
\* one, and clearCompleted has left the Walk dog task alone in the collection.
C16_Witness ==
    /\ op.name = "clearCompleted" /\ op.hit
    /\ idsDrawn = 2
    /\ filter = "active"
    /\ TextsOf(todos) = <<WalkDog>>
    /\ todos[1].id = uuidv4(1)
    /\ ~todos[1].completed
    /\ stored = Snapshot(todos)

\* C17: whenever a task id is recorded as being edited, a task with that id
\* is in the collection.
C17_EditingIdExists == editingId # Null => Has(todos, editingId)

\* The page as it is right after startEdit of task "b" of the saved
\* collection, the state SpecEditing starts in; SpecStore reaches it.
EditOpened ==
    /\ op = Op("startEdit", "u1", <<>>, TRUE)
    /\ todos = <<Todo("u2", <<"a">>, FALSE, 1), Todo("u1", <<"b">>, TRUE, 0)>>
    /\ stored = Snapshot(todos)
    /\ text = <<>> /\ filter = "all" /\ editingId = "u1" /\ editingText = <<"b">>
    /\ mounted /\ idsDrawn = 2 /\ failBudget = 0

\* C18: whatever was added, toggled or removed while an edit was open, a
\* saveEdit of the edited task with a text that is not blank gives the
\* collection as it is at that moment with the text of that task replaced
\* and nothing else: the completed flag is the current one, not the one the
\* task had at startEdit.
C18_EditKeepsLaterMutations ==
    [][(op'.name = "saveEdit" /\ op'.id = editingId /\ ~IsBlank(editingText)) =>
          todos' = [i \in 1..Len(todos) |->
                       IF todos[i].id = editingId
                       THEN [todos[i] EXCEPT !.text = Trim(editingText)]
                       ELSE todos[i]]]_vars

\* The edit of "b" was committed after "b" and the other task had been
\* toggled and a third task added: all three changes are in the collection.
C18_Witness ==
    /\ op.name = "saveEdit" /\ op.id = "u1" /\ op.hit /\ op.arg = <<"a">>
    /\ Len(todos) = 3
    /\ todos[3] = Todo("u1", <<"a">>, FALSE, 0)
    /\ todos[2] = Todo("u2", <<"a">>, TRUE, 1)
    /\ todos[1].id = "u3"
    /\ stored = Snapshot(todos)

\* C19: startup is loadTodos and then one write of the loaded collection,
\* before any handler runs: no handler acts before the page has mounted, the
\* mount step leaves the collection as loaded and the slot equal to its
\* serialization, it happens once, and a slot that was absent, empty or
\* unparseable holds the serialized empty collection after it.
C19_StartupSaves ==
    /\ [](~mounted => op.name \in {"init", "renderError"})
    /\ [][/\ op'.name = "mount" =>
               /\ ~mounted /\ mounted'
               /\ op.name = "init"
               /\ todos' = todos
               /\ stored' = Snapshot(todos)
               /\ ~StoredIsCollection(stored) =>
                      (todos = <<>> /\ stored'.raw = <<"[", "]">>)
          /\ mounted => op'.name # "mount"]_vars

\* The page has started on a slot that held no collection: the slot now
\* holds the serialized empty collection.
C19_Witness ==
    /\ op.name = "mount"
    /\ mounted
    /\ todos = <<>>
    /\ stored = [present |-> TRUE, raw |-> <<"[", "]">>]

IdsOf(s) == [i \in 1..Len(s) |-> s[i].id]

\* The ids uuidv4 has returned so far.
Drawn == {IdPool[k] : k \in 1..idsDrawn}

\* C20: in every step, a task that stays in the collection keeps its id and
\* createdAt, and the tasks that stay keep their relative order.  A task that
\* has left the collection never comes back: every id of the collection is
\* one uuidv4 has returned, and an id that enters the collection is one
\* uuidv4 had not returned before, so it is the id of no earlier task.
C20_IdentityOrderNoReturn ==
    /\ [](\A i \in 1..Len(todos) : todos[i].id \in Drawn)
    /\ [][/\ \A i \in 1..Len(todos) : \A j \in 1..Len(todos') :
                todos[i].id = todos'[j].id => todos[i].createdAt = todos'[j].createdAt
          /\ SelectSeq(IdsOf(todos), LAMBDA x : Has(todos', x))
                = SelectSeq(IdsOf(todos'), LAMBDA x : Has(todos, x))
          /\ \A j \in 1..Len(todos') :
                ~Has(todos, todos'[j].id) => todos'[j].id \notin Drawn
          /\ idsDrawn' >= idsDrawn]_vars

\* A task was added after another had been removed: the survivor of the
\* saved collection is where it was, with its createdAt, and the new task
\* has a new id.
C20_Witness ==
    /\ op.name = "addTodo"
    /\ idsDrawn = 3
    /\ Len(todos) = 2
    /\ todos[1].id = "u3"
    /\ todos[2].id = "u1" /\ todos[2].createdAt = 0

====
